---- MODULE Spec2Model ----
(***************************************************************************)
(* A model of the BM25 inverted index of src/cli/inverted_index.py with    *)
(* the tokenizer of src/cli/utils.py.                                      *)
(*                                                                         *)
(* A Python str is modelled as the sequence of its whitespace-separated    *)
(* words, a dict as a function with a finite domain, a float as a fixed-   *)
(* point integer (Scale units per 1.0).                                    *)
(***************************************************************************)
EXTENDS Integers, Sequences, FiniteSets, TLC

(* ------------------------------ bounds -------------------------------- *)

\* Document ids are 1..MaxDocId.
MaxDocId == 2
\* At most MaxMovies movie records are passed to build in one behaviour, over
\* all build calls (the counts are unbounded in the code: build is additive).
MaxMovies == 2
\* At most MaxSaves calls of save in one behaviour.
MaxSaves == 2

DocIds == 1..MaxDocId
\* InvertedIndex objects, each in a process of its own. The calls of
\* SeqObjs are the ones the sequential specifications make.
Objs == {"A", "B"}
SeqObjs == {"A"}
Writer == "A"
Reader == "B"
\* Cache directories.
Dirs == {"cache"}

(* ----------------------------- tokenizer ------------------------------ *)

\* The words a text may contain: raw words and the tokens they become
\* (bm25_search passes tokens back into the tokenizer).
Words == {"Fox", "runs", "the", "she's", "fox", "run", "she", "shes"}

\* utils.clean_text on one word: punctuation removed, lowercased.
clean_text(w) ==
  CASE w = "Fox"   -> "fox"
    [] w = "she's" -> "shes"
    [] OTHER       -> w

\* The stopword file's content (lowercased lines).
stopwords == {"the", "she"}

\* PorterStemmer.stem on the cleaned words.
stem(w) ==
  CASE w = "runs" -> "run"
    [] w = "shes" -> "she"
    [] OTHER      -> w

RECURSIVE MapSeq(_, _)
\* [F(x) for x in s], F one of "clean" and "stem".
MapSeq(F, s) ==
  IF s = << >> THEN << >>
  ELSE <<(IF F = "clean" THEN clean_text(Head(s)) ELSE stem(Head(s)))>>
       \o MapSeq(F, Tail(s))

\* utils.tokenize: clean the text and split it on whitespace.
tokenize(text) == MapSeq("clean", text)

\* utils.without_stopwords.
without_stopwords(text) == SelectSeq(tokenize(text), LAMBDA t : t \notin stopwords)

\* utils.stemming: the tokenizer keyword_search_cli.py injects (tok).
stemming(text) == MapSeq("stem", without_stopwords(text))

\* InvertedIndex._tokenize
Tokenize(text) == stemming(text)

(* ------------------------------- dicts -------------------------------- *)

EmptyDict == << >>

\* d.get(k, default)
Get(d, k, default) == IF k \in DOMAIN d THEN d[k] ELSE default

\* d[k] = v
Put(d, k, v) == [x \in (DOMAIN d) \cup {k} |-> IF x = k THEN v ELSE d[x]]

RECURSIVE SumOver(_, _)
\* sum(d[k] for k in keys)
SumOver(d, keys) ==
  IF keys = {} THEN 0
  ELSE LET k == CHOOSE x \in keys : TRUE
       IN d[k] + SumOver(d, keys \ {k})

\* sum(d.values())
SumValues(d) == SumOver(d, DOMAIN d)

\* The number of times tok appears in the token sequence toks.
Occurrences(toks, tok) == Cardinality({i \in DOMAIN toks : toks[i] = tok})

(* --------------------------- InvertedIndex ---------------------------- *)

\* InvertedIndex.__init__: four empty structures.
NewIndex ==
  [index |-> EmptyDict, docmap |-> EmptyDict,
   term_frequencies |-> EmptyDict, doc_lengths |-> EmptyDict]

RECURSIVE AddTokens(_, _, _)
\* The loop of __add_document over the tokens: posting set and counter.
AddTokens(s, doc_id, tokens) ==
  IF tokens = << >> THEN s
  ELSE LET tok == Head(tokens)
           ix  == IF tok \in DOMAIN s.index THEN s.index
                  ELSE Put(s.index, tok, {})
           ix2 == Put(ix, tok, ix[tok] \cup {doc_id})
           ctr == s.term_frequencies[doc_id]
           tf2 == Put(s.term_frequencies, doc_id,
                      Put(ctr, tok, Get(ctr, tok, 0) + 1))
       IN AddTokens([s EXCEPT !.index = ix2, !.term_frequencies = tf2],
                    doc_id, Tail(tokens))

\* __add_document with `self.doc_lengths[doc_id] = len(tokens)` for `+=`.
add_document_assign(s, doc_id, text) ==
  LET tokens == Tokenize(text)
      s1 == IF doc_id \in DOMAIN s.term_frequencies THEN s
            ELSE [s EXCEPT !.term_frequencies = Put(@, doc_id, EmptyDict)]
      s2 == AddTokens(s1, doc_id, tokens)
  IN [s2 EXCEPT !.doc_lengths = Put(@, doc_id, Len(tokens))]

\* InvertedIndex.__add_document
add_document(s, doc_id, text) ==
  LET tokens == Tokenize(text)
      s1 == IF doc_id \in DOMAIN s.term_frequencies THEN s
            ELSE [s EXCEPT !.term_frequencies = Put(@, doc_id, EmptyDict)]
      s2 == AddTokens(s1, doc_id, tokens)
      s3 == IF doc_id \in DOMAIN s2.doc_lengths THEN s2
            ELSE [s2 EXCEPT !.doc_lengths = Put(@, doc_id, 0)]
  IN [s3 EXCEPT !.doc_lengths = Put(@, doc_id, @[doc_id] + Len(tokens))]

\* The text build indexes for a movie: f"{title} {description}".
MovieText(movie) == movie.title \o movie.description

RECURSIVE build(_, _)
\* InvertedIndex.build
build(s, movies) ==
  IF movies = << >> THEN s
  ELSE LET movie  == Head(movies)
           doc_id == movie.id
           s1     == [s EXCEPT !.docmap = Put(@, doc_id, movie)]
       IN build(add_document(s1, doc_id, MovieText(movie)), Tail(movies))

(* ---------------------------- persistence ----------------------------- *)

\* The four files of a cache directory, in the order save writes them and
\* load checks and reads them.
FileNames == <<"index.pkl", "docmap.pkl", "term_frequencies.pkl", "doc_lengths.pkl">>

\* The structure each file holds.
FieldOf(name) ==
  CASE name = "index.pkl"            -> "index"
    [] name = "docmap.pkl"           -> "docmap"
    [] name = "term_frequencies.pkl" -> "term_frequencies"
    [] name = "doc_lengths.pkl"      -> "doc_lengths"

\* A file that does not exist, one that open(path, "wb") has created or
\* truncated, and one that holds a pickle. `from` is history, not content:
\* the four structures of the index whose save wrote the file.
AbsentFile == [st |-> "absent", data |-> {}, from |-> NewIndex]
EmptyFile == [st |-> "empty", data |-> {}, from |-> NewIndex]
DataFile(bytes, s) == [st |-> "data", data |-> bytes, from |-> s]

\* A directory nothing was saved to.
NoFiles == [n \in {FileNames[i] : i \in DOMAIN FileNames} |-> AbsentFile]

\* pickle of a flat dict: its items.
PickleDict(d) == {<<k, d[k]>> : k \in DOMAIN d}

\* pickle.loads of the items of a flat dict.
UnpickleDict(items) ==
  [k \in {it[1] : it \in items} |-> (CHOOSE it \in items : it[1] = k)[2]]

\* pickle.dump of one of the four structures (term_frequencies is a dict of
\* Counters, pickled item by item; the others are flat).
pickle_dump(field, value) ==
  IF field = "term_frequencies"
  THEN {<<k, PickleDict(value[k])>> : k \in DOMAIN value}
  ELSE PickleDict(value)

\* pickle.load of one of the four structures.
pickle_load(field, bytes) ==
  IF field = "term_frequencies"
  THEN [k \in {it[1] : it \in bytes} |->
          UnpickleDict((CHOOSE it \in bytes : it[1] = k)[2])]
  ELSE UnpickleDict(bytes)

\* The field of s named by a file name.
FieldValue(s, field) ==
  CASE field = "index"            -> s.index
    [] field = "docmap"           -> s.docmap
    [] field = "term_frequencies" -> s.term_frequencies
    [] field = "doc_lengths"      -> s.doc_lengths

\* s with one field assigned.
SetField(s, field, value) ==
  CASE field = "index"            -> [s EXCEPT !.index = value]
    [] field = "docmap"           -> [s EXCEPT !.docmap = value]
    [] field = "term_frequencies" -> [s EXCEPT !.term_frequencies = value]
    [] field = "doc_lengths"      -> [s EXCEPT !.doc_lengths = value]

\* save and load each take 2 * 4 steps.
NSteps == 2 * Len(FileNames)

\* save, step by step: steps 2k-1 and 2k are `with open(path_k, "wb") as f`
\* (the file is created or truncated) and pickle.dump(structure_k, f).
SaveStep(files, s, step) ==
  LET name == FileNames[(step + 1) \div 2]
  IN IF step % 2 = 1
     THEN [files EXCEPT ![name] = EmptyFile]
     ELSE [files EXCEPT ![name] =
             DataFile(pickle_dump(FieldOf(name), FieldValue(s, FieldOf(name))), s)]

RECURSIVE RunSave(_, _, _, _)
\* Steps from..to of save.
RunSave(files, s, from, to) ==
  IF from > to THEN files
  ELSE RunSave(SaveStep(files, s, from), s, from + 1, to)

\* InvertedIndex.save, run to its end.
save(files, s) == RunSave(files, s, 1, NSteps)

\* load as save's docstring has it: only index.pkl and docmap.pkl are read.
LoadStepTwoFiles(files, s, step) ==
  IF step <= Len(FileNames)
  THEN [err |-> IF files[FileNames[step]].st = "absent"
                THEN "FileNotFoundError" ELSE "none",
        s |-> s]
  ELSE LET name == FileNames[step - Len(FileNames)]
       IN IF files[name].st = "data" /\ step - Len(FileNames) <= 2
          THEN [err |-> "none",
                s |-> SetField(s, FieldOf(name), pickle_load(FieldOf(name), files[name].data))]
          ELSE [err |-> "none", s |-> s]

\* load without the os.path.exists of all(...): open(path, "rb") finds out.
LoadStepNoCheck(files, s, step) ==
  IF step <= Len(FileNames)
  THEN [err |-> "none", s |-> s]
  ELSE LET name == FileNames[step - Len(FileNames)]
       IN IF files[name].st = "data"
          THEN [err |-> "none",
                s |-> SetField(s, FieldOf(name), pickle_load(FieldOf(name), files[name].data))]
          ELSE [err |-> IF files[name].st = "empty" THEN "EOFError"
                        ELSE "FileNotFoundError",
                s |-> s]

\* load, step by step: steps 1..4 are the os.path.exists of all(...), one
\* path each; steps 5..8 are the four pickle.load, each assigned at once.
\* The result is the error raised ("none": the next step follows) and the
\* structures after the step.
LoadStep(files, s, step) ==
  IF step <= Len(FileNames)
  THEN [err |-> IF files[FileNames[step]].st = "absent"
                THEN "FileNotFoundError" ELSE "none",
        s |-> s]
  ELSE LET name == FileNames[step - Len(FileNames)]
       IN IF files[name].st = "data"
          THEN [err |-> "none",
                s |-> SetField(s, FieldOf(name), pickle_load(FieldOf(name), files[name].data))]
          ELSE [err |-> IF files[name].st = "empty" THEN "EOFError"
                        ELSE "FileNotFoundError",
                s |-> s]

RECURSIVE RunLoad(_, _, _)
\* load from step `step` to its end or to the first error.
RunLoad(files, s, step) ==
  IF step > NSteps THEN [err |-> "none", s |-> s]
  ELSE LET r == LoadStep(files, s, step)
       IN IF r.err # "none" THEN r ELSE RunLoad(files, r.s, step + 1)

\* InvertedIndex.load, run to its end.
load(files, s) == RunLoad(files, s, 1)

(* ------------------------------ floats ------------------------------- *)

\* A float x is the integer x * Scale, rounded towards zero.
Scale == 100 * 100

\* k1 and b are given in quarters: k1 = kq / Quarters, b = bq / Quarters.
Quarters == 2 * 2

\* BM25_K1 = 1.5 and BM25_B = 0.75, in quarters.
BM25_K1 == 6
BM25_B == 3
\* The default of bm25_search's limit.
DefaultLimit == 5

Abs(x) == IF x < 0 THEN 0 - x ELSE x

RECURSIVE AtanhSeries(_, _, _, _)
\* sum of z^j / j over the odd j from j on, where power = z^j * Scale and
\* z = a / c, 0 <= a < c.
AtanhSeries(power, j, a, c) ==
  IF power = 0 THEN 0
  ELSE (power \div j) + AtanhSeries((power * a * a) \div (c * c), j + 2, a, c)

\* math.log(p / q) for p, q > 0: ln x = 2 atanh((x - 1) / (x + 1)).
Log(p, q) ==
  LET a == Abs(p - q)
      c == p + q
      v == 2 * AtanhSeries((Scale * a) \div c, 1, a, c)
  IN IF p < q THEN 0 - v ELSE v

(* ----------------------------- accessors ------------------------------ *)

\* What a call gives: the error it raised ("none": it returned), the value
\* it returned, and the four structures after it.
Raise(e, s) == [err |-> e, val |-> 0, s |-> s]
Ret(v, s) == [err |-> "none", val |-> v, s |-> s]

\* The body of get_frequency after `tokens = tokenize(term)`, with
\* `self.term_frequencies[doc_id]` for `.get(doc_id)`.
frequency_subscript(s, doc_id, tokens) ==
  IF Len(tokens) # 1 THEN Raise("ValueError", s)
  ELSE IF doc_id \notin DOMAIN s.term_frequencies THEN Raise("KeyError", s)
  ELSE Ret(Get(s.term_frequencies[doc_id], tokens[1], 0), s)

get_frequency_subscript(s, doc_id, term) ==
  frequency_subscript(s, doc_id, Tokenize(term))

\* The body of get_frequency after `tokens = tokenize(term)`.
frequency(s, doc_id, tokens) ==
  IF Len(tokens) # 1 THEN Raise("ValueError", s)
  ELSE IF doc_id \notin DOMAIN s.term_frequencies
          \/ DOMAIN s.term_frequencies[doc_id] = {}
       THEN Ret(0, s)
       ELSE Ret(Get(s.term_frequencies[doc_id], tokens[1], 0), s)

\* InvertedIndex.get_frequency
get_frequency(s, doc_id, term) == frequency(s, doc_id, Tokenize(term))

\* math.log((n - df + 0.5) / (df + 0.5) + 1), the quotient being
\* (2 (n - df) + 1) / (2 df + 1).
idf_log(n, df) == Log(2 * (n - df) + 1 + 2 * df + 1, 2 * df + 1)

\* The body of get_bm25_idf after `tokens = tokenize(term)`.
bm25_idf(s, tokens) ==
  IF Len(tokens) # 1 THEN Raise("ValueError", s)
  ELSE IF Cardinality(DOMAIN s.docmap) = 0 THEN Ret(0, s)
  ELSE Ret(idf_log(Cardinality(DOMAIN s.docmap),
                   Cardinality(Get(s.index, tokens[1], {}))), s)

\* InvertedIndex.get_bm25_idf
get_bm25_idf(s, term) == bm25_idf(s, Tokenize(term))

\* InvertedIndex.__get_avg_doc_length, as the pair <<sum, len>> (<<0, 1>>
\* is the 0.0 of an empty table).
get_avg_doc_length(s) ==
  IF DOMAIN s.doc_lengths = {} THEN <<0, 1>>
  ELSE <<SumValues(s.doc_lengths), Cardinality(DOMAIN s.doc_lengths)>>

\* The body of get_bm25_tf after tf, avg and document_length are read.
bm25_tf(s, tf, avg, document_length, kq, bq) ==
  LET \* length_norm = 1 - b + b * (document_length / avg), as normNum / normDen
      normNum == (Quarters - bq) * avg[1] + bq * document_length * avg[2]
      normDen == Quarters * avg[1]
      \* tf + k1 * length_norm, as divNum / (Quarters * normDen)
      divNum == Quarters * normDen * tf + kq * normNum
  IN IF document_length = 0 \/ avg[1] = 0 THEN Ret(0, s)
     ELSE IF divNum = 0 THEN Raise("ZeroDivisionError", s)
     ELSE Ret((Scale * tf * (kq + Quarters) * normDen) \div divNum, s)

\* get_bm25_tf from `tf = self.get_frequency(doc_id, term)` on, f what
\* that call gave.
bm25_tf_of(s, f, doc_id, kq, bq) ==
  IF f.err # "none" THEN Raise("ValueError", s)
  ELSE bm25_tf(s, f.val, get_avg_doc_length(s), Get(s.doc_lengths, doc_id, 0),
               kq, bq)

\* InvertedIndex.get_bm25_tf
get_bm25_tf(s, doc_id, term, kq, bq) ==
  bm25_tf_of(s, get_frequency(s, doc_id, term), doc_id, kq, bq)

\* `return idf * tf` of bm25, idf and tf what the two calls gave.
bm25_product(s, idf, tf) ==
  IF idf.err # "none" THEN idf
  ELSE IF tf.err # "none" THEN tf
  ELSE Ret((idf.val * tf.val) \div Scale, s)

\* InvertedIndex.bm25
bm25(s, doc_id, term, kq, bq) ==
  bm25_product(s, get_bm25_idf(s, term), get_bm25_tf(s, doc_id, term, kq, bq))

(* ------------------------------- search ------------------------------- *)

RECURSIVE UnionPostings(_, _)
\* candidates |= self.index.get(tok, set()), over the query tokens.
UnionPostings(s, tokens) ==
  IF tokens = << >> THEN {}
  ELSE Get(s.index, Head(tokens), {}) \cup UnionPostings(s, Tail(tokens))

\* total += self.bm25(doc_id, tok, k1, b): one is what the call gave, rest
\* the sum over the tokens behind tok.
AddScore(s, one, rest) ==
  IF one.err # "none" THEN one
  ELSE IF rest.err # "none" THEN rest
  ELSE Ret(one.val + rest.val, s)

RECURSIVE TotalScore(_, _, _, _, _)
\* The inner loop of bm25_search, over the query tokens.
TotalScore(s, doc_id, tokens, kq, bq) ==
  IF tokens = << >> THEN Ret(0, s)
  ELSE AddScore(s, bm25(s, doc_id, <<Head(tokens)>>, kq, bq),
                TotalScore(s, doc_id, Tail(tokens), kq, bq))

\* The end of the outer loop's body without `if total > 0.0`.
KeepZeroScore(s, doc_id, total, rest) ==
  IF total.err # "none" THEN total
  ELSE IF rest.err # "none" THEN rest
  ELSE Ret(<<<<doc_id, total.val>>>> \o rest.val, s)

RECURSIVE ScoreAllKeepZero(_, _, _, _, _)
\* The outer loop of bm25_search without `if total > 0.0`.
ScoreAllKeepZero(s, order, tokens, kq, bq) ==
  IF order = << >> THEN Ret(<< >>, s)
  ELSE KeepZeroScore(s, Head(order),
                     TotalScore(s, Head(order), tokens, kq, bq),
                     ScoreAllKeepZero(s, Tail(order), tokens, kq, bq))

\* `if total > 0.0: scores[doc_id] = total`: total is the sum for doc_id,
\* rest the items of the candidates behind it.
KeepScore(s, doc_id, total, rest) ==
  IF total.err # "none" THEN total
  ELSE IF rest.err # "none" THEN rest
  ELSE IF total.val > 0 THEN Ret(<<<<doc_id, total.val>>>> \o rest.val, s)
  ELSE rest

RECURSIVE ScoreAll(_, _, _, _, _)
\* The outer loop of bm25_search over the candidates, in the order the set
\* is iterated: the items of `scores`, in insertion order.
ScoreAll(s, order, tokens, kq, bq) ==
  IF order = << >> THEN Ret(<< >>, s)
  ELSE KeepScore(s, Head(order), TotalScore(s, Head(order), tokens, kq, bq),
                 ScoreAll(s, Tail(order), tokens, kq, bq))

\* sorted(items, key=lambda kv: kv[1], reverse=True): the sort is stable,
\* also reversed, so an item comes behind the items that score more and
\* behind those before it in `items` that score the same.
SortedDesc(items) ==
  LET place == [i \in DOMAIN items |->
                  1 + Cardinality({j \in DOMAIN items :
                        \/ items[j][2] > items[i][2]
                        \/ items[j][2] = items[i][2] /\ j < i})]
  IN [p \in DOMAIN items |-> items[CHOOSE i \in DOMAIN items : place[i] = p]]

\* seq[:limit]
Slice(seq, limit) ==
  IF limit >= 0
  THEN SubSeq(seq, 1, IF limit < Len(seq) THEN limit ELSE Len(seq))
  ELSE SubSeq(seq, 1, IF Len(seq) + limit > 0 THEN Len(seq) + limit ELSE 0)

\* The orders in which a set may be iterated.
Orders(S) ==
  {f \in [1..Cardinality(S) -> S] : \A i, j \in DOMAIN f : f[i] = f[j] => i = j}

\* The end of bm25_search: `ranked = sorted(...)` and `return ranked[:limit]`,
\* scores what the loop over the candidates gave.
Ranked(s, scores, limit) ==
  IF scores.err # "none" THEN scores
  ELSE Ret(Slice(SortedDesc(scores.val), limit), s)

\* bm25_search after `tokens = tokenize(query)`.
SearchTokens(s, tokens, kq, bq, limit, order) ==
  IF tokens = << >> THEN Ret(<< >>, s)
  ELSE IF UnionPostings(s, tokens) = {} THEN Ret(<< >>, s)
  ELSE Ranked(s, ScoreAll(s, order, tokens, kq, bq), limit)

\* InvertedIndex.bm25_search, `order` the iteration order of candidates.
bm25_search(s, query, kq, bq, limit, order) ==
  SearchTokens(s, Tokenize(query), kq, bq, limit, order)

(* ------------------------------- inputs ------------------------------- *)

\* The title and description of the movies of the collection.
MovieTexts ==
  { <<<<"Fox">>, << >>>>, <<<<"Fox">>, <<"runs">>>>,
    <<<<"the">>, << >>>>, <<<<"she's">>, <<"runs">>>> }
Movies == {[id |-> i, title |-> t[1], description |-> t[2]] : i \in DocIds, t \in MovieTexts}
\* The lists of movies a build call may get.
MovieLists == {<<m>> : m \in Movies} \cup {<<m, n>> : m \in Movies, n \in Movies}

\* The words of a query or a term, and the queries and terms: up to two words.
QueryWords == {"Fox", "runs", "she's"}
Texts ==
  {<< >>, <<"the">>} \cup {<<w>> : w \in QueryWords}
  \cup {<<w, v>> : w \in QueryWords, v \in QueryWords}
\* The document ids of the accessor calls: one of them is never built.
AnyDocIds == DocIds \cup {MaxDocId + 1}
\* k1 and b of a call, in quarters, and its limit.
K1s == {0, BM25_K1}
Bs == {0, BM25_B, Quarters}
Limits == {0 - 1, 1, DefaultLimit}
\* k1 of a search: also a negative one.
SearchK1s == K1s \cup {0 - Quarters}

(* ------------------------------- state -------------------------------- *)

VARIABLES
  obj,      \* obj[o]: the four structures of InvertedIndex o
  fs,       \* fs[d]: the files of cache directory d
  pc,       \* pc[o]: where the call running on o stands
  last,     \* the call that has just returned or raised, and its outcome
  nmovies,  \* movie records passed to build so far
  nsaves    \* save calls so far

vars == <<obj, fs, pc, last, nmovies, nsaves>>

\* before: the structures when the call began; from: history, the indexes
\* whose saves wrote the files the call has read.
Idle == [op |-> "idle", dir |-> "", step |-> 0, before |-> NewIndex, from |-> {}]
NoCall == [op |-> "none"]

Init ==
  /\ obj = [o \in Objs |-> NewIndex]
  /\ fs = [d \in Dirs |-> NoFiles]
  /\ pc = [o \in Objs |-> Idle]
  /\ last = NoCall
  /\ nmovies = 0
  /\ nsaves = 0

\* No call's outcome is pending, and o runs no call.
Ready(o) == last.op = "none" /\ pc[o].op = "idle"

\* Nothing runs on any object: the next call runs alone.
Quiet == \A p \in Objs : pc[p].op = "idle"

\* The files of directory d that exist.
Present(d) == {n \in DOMAIN fs[d] : fs[d][n].st # "absent"}

\* idx = InvertedIndex(tokenize_fn=tok): the name is bound to a new index.
New(o) ==
  /\ Ready(o)
  /\ obj[o] # NewIndex
  /\ obj' = [obj EXCEPT ![o] = NewIndex]
  /\ UNCHANGED <<fs, pc, last, nmovies, nsaves>>

\* idx.build(movies)
Build(o, movies) ==
  /\ Ready(o)
  /\ nmovies + Len(movies) <= MaxMovies
  /\ obj' = [obj EXCEPT ![o] = build(obj[o], movies)]
  /\ nmovies' = nmovies + Len(movies)
  /\ UNCHANGED <<fs, pc, last, nsaves>>

\* idx.save(d), run to its end with nothing in between.
Save(o, d) ==
  /\ Ready(o) /\ Quiet
  /\ nsaves < MaxSaves
  /\ fs' = [fs EXCEPT ![d] = save(fs[d], obj[o])]
  /\ nsaves' = nsaves + 1
  /\ UNCHANGED <<obj, pc, last, nmovies>>

\* idx.save(d) that an error of open or pickle.dump ends after k steps.
SaveInterrupted(o, d, k) ==
  /\ Ready(o) /\ Quiet
  /\ nsaves < MaxSaves
  /\ fs' = [fs EXCEPT ![d] = RunSave(fs[d], obj[o], 1, k)]
  /\ nsaves' = nsaves + 1
  /\ UNCHANGED <<obj, pc, last, nmovies>>

\* idx.load(d), run to its end with nothing in between.
Load(o, d) ==
  /\ Ready(o) /\ Quiet
  /\ LET r == load(fs[d], obj[o])
     IN /\ obj' = [obj EXCEPT ![o] = r.s]
        /\ last' = [op |-> "load", o |-> o, dir |-> d, err |-> r.err,
                    before |-> obj[o],
                    from |-> IF r.err = "none"
                             THEN {fs[d][n].from : n \in DOMAIN fs[d]} ELSE {}]
  /\ UNCHANGED <<fs, pc, nmovies, nsaves>>

\* idx.save(d) begins.
CallSave(o, d) ==
  /\ Ready(o)
  /\ nsaves < MaxSaves
  /\ pc' = [pc EXCEPT ![o] = [Idle EXCEPT !.op = "save", !.dir = d, !.step = 1]]
  /\ nsaves' = nsaves + 1
  /\ UNCHANGED <<obj, fs, last, nmovies>>

\* One step of the save running on o.
StepSave(o) ==
  /\ last.op = "none"
  /\ pc[o].op = "save"
  /\ fs' = [fs EXCEPT ![pc[o].dir] = SaveStep(@, obj[o], pc[o].step)]
  /\ pc' = [pc EXCEPT ![o] = IF pc[o].step = NSteps THEN Idle
                             ELSE [@ EXCEPT !.step = @ + 1]]
  /\ UNCHANGED <<obj, last, nmovies, nsaves>>

\* idx.load(d) begins.
CallLoad(o, d) ==
  /\ Ready(o)
  /\ pc' = [pc EXCEPT ![o] = [Idle EXCEPT !.op = "load", !.dir = d, !.step = 1,
                                          !.before = obj[o]]]
  /\ UNCHANGED <<obj, fs, last, nmovies, nsaves>>

\* One step of the load running on o.
StepLoad(o) ==
  /\ last.op = "none"
  /\ pc[o].op = "load"
  /\ LET d == pc[o].dir
         r == LoadStep(fs[d], obj[o], pc[o].step)
         from == IF pc[o].step > Len(FileNames) /\ r.err = "none"
                 THEN pc[o].from \cup {fs[d][FileNames[pc[o].step - Len(FileNames)]].from}
                 ELSE pc[o].from
     IN /\ obj' = [obj EXCEPT ![o] = r.s]
        /\ IF r.err # "none" \/ pc[o].step = NSteps
           THEN /\ pc' = [pc EXCEPT ![o] = Idle]
                /\ last' = [op |-> "load", o |-> o, dir |-> d, err |-> r.err,
                            before |-> pc[o].before, from |-> from]
           ELSE /\ pc' = [pc EXCEPT ![o] = [@ EXCEPT !.step = @ + 1, !.from = from]]
                /\ UNCHANGED last
  /\ UNCHANGED <<fs, nmovies, nsaves>>

\* idx.get_frequency(doc_id, term)
GetFrequency(o, doc_id, term) ==
  /\ Ready(o)
  /\ LET r == get_frequency(obj[o], doc_id, term)
     IN /\ obj' = [obj EXCEPT ![o] = r.s]
        /\ last' = [op |-> "get_frequency", o |-> o, doc_id |-> doc_id,
                    term |-> term, err |-> r.err, val |-> r.val,
                    before |-> obj[o]]
  /\ UNCHANGED <<fs, pc, nmovies, nsaves>>

\* idx.get_bm25_idf(term)
GetBm25Idf(o, term) ==
  /\ Ready(o)
  /\ LET r == get_bm25_idf(obj[o], term)
     IN /\ obj' = [obj EXCEPT ![o] = r.s]
        /\ last' = [op |-> "get_bm25_idf", o |-> o, term |-> term,
                    err |-> r.err, val |-> r.val, before |-> obj[o]]
  /\ UNCHANGED <<fs, pc, nmovies, nsaves>>

\* idx.get_bm25_tf(doc_id, term, k1, b)
GetBm25Tf(o, doc_id, term, kq, bq) ==
  /\ Ready(o)
  /\ LET r == get_bm25_tf(obj[o], doc_id, term, kq, bq)
     IN /\ obj' = [obj EXCEPT ![o] = r.s]
        /\ last' = [op |-> "get_bm25_tf", o |-> o, doc_id |-> doc_id,
                    term |-> term, k1 |-> kq, b |-> bq, err |-> r.err,
                    val |-> r.val, before |-> obj[o]]
  /\ UNCHANGED <<fs, pc, nmovies, nsaves>>

\* idx.bm25_search(query, k1, b, limit)
Bm25Search(o, query, kq, bq, limit) ==
  /\ Ready(o)
  /\ \E order \in Orders(UnionPostings(obj[o], Tokenize(query))) :
       LET r == bm25_search(obj[o], query, kq, bq, limit, order)
       IN /\ obj' = [obj EXCEPT ![o] = r.s]
          /\ last' = [op |-> "bm25_search", o |-> o, query |-> query,
                      k1 |-> kq, b |-> bq, limit |-> limit, err |-> r.err,
                      val |-> r.val]
  /\ UNCHANGED <<fs, pc, nmovies, nsaves>>

\* The caller takes the outcome of the call.
Return ==
  /\ last.op # "none"
  /\ last' = NoCall
  /\ UNCHANGED <<obj, fs, pc, nmovies, nsaves>>

(* --------------------------- specifications --------------------------- *)

\* One index at a time, each call run to its end: construction, build,
\* save and load.
Next ==
  \/ \E o \in SeqObjs : New(o)
  \/ \E o \in SeqObjs : \E movies \in MovieLists : Build(o, movies)
  \/ \E o \in SeqObjs : \E d \in Dirs : Save(o, d)
  \/ \E o \in SeqObjs : \E d \in Dirs : Load(o, d)
  \/ Return

Spec == Init /\ [][Next]_vars

\* The same, with the single-token accessors.
NextAccess ==
  \/ \E o \in SeqObjs : New(o)
  \/ \E o \in SeqObjs : \E movies \in MovieLists : Build(o, movies)
  \/ \E o \in SeqObjs : \E d \in Dirs : Save(o, d)
  \/ \E o \in SeqObjs : \E d \in Dirs : Load(o, d)
  \/ \E o \in SeqObjs : \E doc_id \in AnyDocIds : \E term \in Texts :
       GetFrequency(o, doc_id, term)
  \/ \E o \in SeqObjs : \E term \in Texts : GetBm25Idf(o, term)
  \/ \E o \in SeqObjs : \E doc_id \in AnyDocIds : \E term \in Texts :
       \E kq \in K1s : \E bq \in Bs : GetBm25Tf(o, doc_id, term, kq, bq)
  \/ Return

SpecAccess == Init /\ [][NextAccess]_vars

\* The same, with the search.
NextSearch ==
  \/ \E o \in SeqObjs : New(o)
  \/ \E o \in SeqObjs : \E movies \in MovieLists : Build(o, movies)
  \/ \E o \in SeqObjs : \E d \in Dirs : Save(o, d)
  \/ \E o \in SeqObjs : \E d \in Dirs : Load(o, d)
  \/ \E o \in SeqObjs : \E query \in Texts : \E kq \in SearchK1s : \E bq \in Bs :
       \E limit \in Limits : Bm25Search(o, query, kq, bq, limit)
  \/ Return

SpecSearch == Init /\ [][NextSearch]_vars

\* The same, with saves that an error ends part-way.
NextCrash ==
  \/ \E o \in SeqObjs : New(o)
  \/ \E o \in SeqObjs : \E movies \in MovieLists : Build(o, movies)
  \/ \E o \in SeqObjs : \E d \in Dirs : Save(o, d)
  \/ \E o \in SeqObjs : \E d \in Dirs : \E k \in 0..(NSteps - 1) : SaveInterrupted(o, d, k)
  \/ \E o \in SeqObjs : \E d \in Dirs : Load(o, d)
  \/ Return

SpecCrash == Init /\ [][NextCrash]_vars

\* Two processes, an index each, as two runs of keyword_search_cli.py: the
\* `build` command builds and saves on Writer while another command loads on
\* Reader. The save and the load interleave, a file operation at a time.
NextConc ==
  \/ \E movies \in MovieLists : Build(Writer, movies)
  \/ \E d \in Dirs : CallSave(Writer, d)
  \/ StepSave(Writer)
  \/ \E d \in Dirs : CallLoad(Reader, d)
  \/ StepLoad(Reader)
  \/ Return

SpecConc == Init /\ [][NextConc]_vars

(* ------------------------------- claims ------------------------------- *)

\* Every token the tokenizer can produce.
Tokens == UNION {{Tokenize(<<w>>)[i] : i \in DOMAIN Tokenize(<<w>>)} : w \in Words}

\* The token stream of the record the catalog holds for d.
IndexedTokens(s, d) == Tokenize(MovieText(s.docmap[d]))

\* C1 (Spec). Frequency consistency: after any build, save and load calls,
\* every document id with an entry in term_frequencies has a doc_lengths
\* entry equal to the sum of the counts of its term_frequencies entry.
C1_FrequencyConsistency ==
  \A o \in Objs : \A d \in DOMAIN obj[o].term_frequencies :
    /\ d \in DOMAIN obj[o].doc_lengths
    /\ SumValues(obj[o].term_frequencies[d]) = obj[o].doc_lengths[d]

\* A load has installed an index in which a document id was built twice.
C1_Witness ==
  /\ last.op = "load" /\ last.err = "none"
  /\ \E d \in DOMAIN obj[last.o].doc_lengths :
       /\ obj[last.o].doc_lengths[d] >= 3
       /\ Cardinality(DOMAIN obj[last.o].term_frequencies[d]) >= 2

\* C2 (Spec). Posting invariant: after any build calls, d is in index[T] if
\* and only if T occurs in the tokenization of the title and description of
\* the record docmap holds for d.
C2_PostingInvariant ==
  \A o \in Objs : \A d \in DocIds : \A T \in Tokens :
    (d \in Get(obj[o].index, T, {}))
      <=> (d \in DOMAIN obj[o].docmap /\ Occurrences(IndexedTokens(obj[o], d), T) >= 1)

\* C3 (Spec). Exact term counts: after any build calls, for every document
\* d of docmap and every token t, term_frequencies[d][t] is the number of
\* times t appears in the token stream of d's indexed text, also when d was
\* passed to build more than once.
C3_ExactTermCounts ==
  \A o \in Objs : \A d \in DOMAIN obj[o].docmap : \A t \in Tokens :
    Get(Get(obj[o].term_frequencies, d, EmptyDict), t, 0)
      = Occurrences(IndexedTokens(obj[o], d), t)

\* C4 (Spec). Save/load round trip: a load that follows a save to the same
\* directory leaves the index with the four structures of the index that
\* was saved, whatever it held before.
C4_RoundTrip ==
  (last.op = "load" /\ last.err = "none")
    => \A n \in DOMAIN fs[last.dir] : obj[last.o] = fs[last.dir][n].from

\* A load has replaced a built index by another built index.
C4_Witness ==
  /\ last.op = "load" /\ last.err = "none"
  /\ last.before # NewIndex
  /\ obj[last.o] # NewIndex
  /\ \A f \in {"index", "docmap", "term_frequencies", "doc_lengths"} :
       FieldValue(last.before, f) # FieldValue(obj[last.o], f)

\* C5 (SpecConc). No mixed snapshot: when a save and a load of the same
\* directory interleave, the four structures a load installs are those of
\* one single save.
C5_NoMixedSnapshot ==
  (last.op = "load" /\ last.err = "none")
    => \E s \in last.from : obj[last.o] = s

\* C6 (SpecCrash). A missing index is an error: load raises
\* FileNotFoundError exactly when one of the four files is absent, and then
\* leaves the four structures as they were before the call.
C6_MissingIsError ==
  last.op = "load" =>
    /\ (last.err = "FileNotFoundError")
         <=> (Present(last.dir) # DOMAIN fs[last.dir])
    /\ last.err = "FileNotFoundError" => obj[last.o] = last.before

\* A load of a directory that holds some of the four files, not all, has
\* failed on a built index.
C6_Witness ==
  /\ last.op = "load" /\ last.err = "FileNotFoundError"
  /\ Present(last.dir) # {}
  /\ fs[last.dir][FileNames[1]].st = "data"
  /\ last.before # NewIndex
  /\ obj[last.o] = last.before

\* The query tokens of the search that has just returned.
LastTokens == Tokenize(last.query)

\* The sum over the query tokens, with repetition, of bm25(doc_id, token).
SumBm25(s, doc_id, tokens, kq, bq) ==
  LET each == [j \in DOMAIN tokens |-> bm25(s, doc_id, <<tokens[j]>>, kq, bq).val]
  IN SumOver(each, DOMAIN each)

\* C7 (SpecSearch). Zero-score exclusion: every (doc_id, score) pair that
\* bm25_search returns has score > 0.0, score is the sum over the query
\* tokens, with repetition, of bm25(doc_id, token, k1, b), and doc_id is in
\* the posting set of a query token.
C7_ZeroScoreExclusion ==
  (last.op = "bm25_search" /\ last.err = "none") =>
    \A i \in DOMAIN last.val :
      /\ last.val[i][2] > 0
      /\ last.val[i][2] = SumBm25(obj[last.o], last.val[i][1], LastTokens, last.k1, last.b)
      /\ \E j \in DOMAIN LastTokens :
           last.val[i][1] \in Get(obj[last.o].index, LastTokens[j], {})

\* A search with a repeated query token has returned two pairs.
C7_Witness ==
  /\ last.op = "bm25_search" /\ last.err = "none"
  /\ last.limit = DefaultLimit
  /\ Len(last.val) = 2
  /\ Len(LastTokens) = 2 /\ LastTokens[1] = LastTokens[2]

\* C8 (SpecSearch). Top-k selection: for every integer limit, bm25_search
\* returns at most limit pairs (none for a limit below 1), in non-increasing
\* score order, no document id twice, and no kept document that is left out
\* scores more than a returned one.
C8_TopK ==
  (last.op = "bm25_search" /\ last.err = "none") =>
    /\ Len(last.val) <= (IF last.limit > 0 THEN last.limit ELSE 0)
    /\ \A i, j \in DOMAIN last.val :
         /\ i < j => last.val[i][2] >= last.val[j][2]
         /\ i # j => last.val[i][1] # last.val[j][1]
    /\ \A d \in UnionPostings(obj[last.o], LastTokens) :
         LET score == SumBm25(obj[last.o], d, LastTokens, last.k1, last.b)
         IN (score > 0 /\ \A i \in DOMAIN last.val : last.val[i][1] # d)
              => \A i \in DOMAIN last.val : score <= last.val[i][2]

\* The token of a one-token term.
TermToken(term) == Tokenize(term)[1]

\* C9 (SpecAccess). Single-token accessors: get_frequency, get_bm25_idf and
\* get_bm25_tf raise ValueError exactly when the term tokenizes to zero or
\* to more than one token, whatever the document id; for a one-token term
\* get_frequency raises nothing and returns the count of the token in the
\* document's term_frequencies entry, 0 when the entry or the token is
\* missing; none of the three changes the four structures.
C9_SingleTokenAccessors ==
  (last.op \in {"get_frequency", "get_bm25_idf", "get_bm25_tf"}) =>
    /\ (last.err = "ValueError") <=> (Len(Tokenize(last.term)) # 1)
    /\ obj[last.o] = last.before
    /\ (last.op = "get_frequency" /\ Len(Tokenize(last.term)) = 1) =>
         /\ last.err = "none"
         /\ last.val =
              (IF last.doc_id \in DOMAIN last.before.term_frequencies
                  /\ TermToken(last.term) \in DOMAIN last.before.term_frequencies[last.doc_id]
               THEN last.before.term_frequencies[last.doc_id][TermToken(last.term)]
               ELSE 0)

\* get_frequency has returned 0 for a document id that was never built, on
\* an index that holds the token.
C9_Witness ==
  /\ last.op = "get_frequency" /\ last.err = "none" /\ last.val = 0
  /\ Len(Tokenize(last.term)) = 1
  /\ last.doc_id \notin DOMAIN obj[last.o].term_frequencies
  /\ TermToken(last.term) \in DOMAIN obj[last.o].index

\* C10 (SpecSearch). Search always completes: for k1 >= 0 and b in [0, 1]
\* bm25_search returns a list and raises nothing.
C10_SearchCompletes ==
  (last.op = "bm25_search" /\ last.k1 >= 0 /\ last.b >= 0 /\ last.b <= Quarters)
    => last.err = "none"

====
